---- MODULE Spec2Model ----
(***************************************************************************)
(* Model of trendfin: parsers.py, sentiment.py and reddit/scrape.py.       *)
(* A text is a sequence of characters, a character a one-character string. *)
(* A regular-expression rewrite scans the text from left to right and      *)
(* replaces the leftmost, non-overlapping matches, as re.sub does.         *)
(***************************************************************************)
EXTENDS Integers, Sequences, FiniteSets, TLC

(***************************************************************************)
(* Characters                                                              *)
(***************************************************************************)
Chars(s) == [i \in 1..Len(s) |-> SubSeq(s, i, i)]

UpperSeq == Chars("ABCDEFGHIJKLMNOPQRSTUVWXYZ")
LowerSeq == Chars("abcdefghijklmnopqrstuvwxyz")
DigitSeq == Chars("0123456789")

UpperLetters == {UpperSeq[k] : k \in 1..Len(UpperSeq)}
LowerLetters == {LowerSeq[k] : k \in 1..Len(LowerSeq)}
Letters == UpperLetters \cup LowerLetters
Digits == {DigitSeq[k] : k \in 1..Len(DigitSeq)}
Whitespace == {" ", "\n", "\t"}

\* one emoji code point, and the name emoji.demojize gives it
Rocket == "U+1F680"
RocketName == Chars(":rocket:")

IsDigit(c) == c \in Digits

\* the literals of the patterns
HTTP == Chars("HTTP")
CALL == Chars("CALL")
PUT == Chars("PUT")
CS == Chars("CS")
PS == Chars("PS")

\* str.upper, character by character
ToUpper(c) ==
    IF c \in LowerLetters
    THEN UpperSeq[CHOOSE k \in 1..Len(LowerSeq) : LowerSeq[k] = c]
    ELSE c

Upper(t) == [i \in 1..Len(t) |-> ToUpper(t[i])]

\* does the character sequence w stand in t at position i
HasAt(t, i, w) == i + Len(w) - 1 <= Len(t) /\ SubSeq(t, i, i + Len(w) - 1) = w

\* is the character at position i of t a member of S (false beyond the end)
CharIn(t, i, S) == i >= 1 /\ i <= Len(t) /\ t[i] \in S

\* the character at position i of t as a sequence, empty beyond the end
CharAt(t, i) == IF i <= Len(t) THEN <<t[i]>> ELSE <<>>

\* index of the last character of the maximal run of S-characters that
\* starts at i; i - 1 when the run is empty
RunEnd(t, i, S) ==
    IF i > Len(t) THEN i - 1
    ELSE IF \A k \in i..Len(t) : t[k] \in S THEN Len(t)
    ELSE (CHOOSE k \in i..Len(t) : t[k] \notin S /\ \A j \in i..(k - 1) : t[j] \in S) - 1

\* the same for the run of characters that are not whitespace (\S+)
NonSpaceRunEnd(t, i) ==
    IF i > Len(t) THEN i - 1
    ELSE IF \A k \in i..Len(t) : t[k] \notin Whitespace THEN Len(t)
    ELSE (CHOOSE k \in i..Len(t) :
              t[k] \in Whitespace /\ \A j \in i..(k - 1) : t[j] \notin Whitespace) - 1

\* re.sub with count=1: only the first run of other characters is deleted
KeepOnce(t, S) ==
    IF \A k \in 1..Len(t) : t[k] \in S THEN t
    ELSE LET j == CHOOSE k \in 1..Len(t) : t[k] \notin S /\ \A i \in 1..(k - 1) : t[i] \in S
             e == RunEnd(t, j, {t[k] : k \in 1..Len(t)} \ S)
         IN  SubSeq(t, 1, j - 1) \o SubSeq(t, e + 1, Len(t))

\* re.sub(r'[^S]+', r'', text): the characters of t that are in S, in order
Keep(t, S) == SelectSeq(t, LAMBDA c : c \in S)

\* re.search of a literal
Contains(t, w) == \E i \in 1..Len(t) : HasAt(t, i, w)

\* the positions where a word of t starts
WordStarts(t) ==
    {i \in 1..Len(t) : t[i] \notin Whitespace /\ (i = 1 \/ t[i - 1] \in Whitespace)}

\* str.split(): the maximal runs of non-whitespace characters
Split(t) ==
    [k \in 1..Cardinality(WordStarts(t)) |->
        LET s == CHOOSE i \in WordStarts(t) :
                     Cardinality({j \in WordStarts(t) : j <= i}) = k
        IN  SubSeq(t, s, NonSpaceRunEnd(t, s))]

(***************************************************************************)
(* The patterns of the re.sub calls.  For a pattern P, PAt(t, j) says that *)
(* P matches t at position j, PEnd(t, j) is the position of the last       *)
(* character of that match (greedy, after backtracking), PRepl(t, j) is    *)
(* what the match is replaced by.                                          *)
(***************************************************************************)
\* (:[A-Za-z_]+:) -> ' \1 '
EmojiNameAt(t, j) ==
    LET e == RunEnd(t, j + 1, Letters \cup {"_"})
    IN  t[j] = ":" /\ e >= j + 1 /\ CharIn(t, e + 1, {":"})

EmojiNameEnd(t, j) == RunEnd(t, j + 1, Letters \cup {"_"}) + 1

EmojiNameRepl(t, j) == <<" ">> \o SubSeq(t, j, EmojiNameEnd(t, j)) \o <<" ">>

\* HTTP\S+ -> ' '
UrlAt(t, j) == HasAt(t, j, HTTP) /\ NonSpaceRunEnd(t, j + 4) >= j + 4

\* HTTP\S: the link ends one character after HTTP
UrlEndOneChar(t, j) == j + 4

UrlEnd(t, j) == NonSpaceRunEnd(t, j + 4)

UrlRepl(t, j) == <<" ">>

\* ([^0-9]|^)\.([^0-9]|$) -> \1\2, the alternative [^0-9] of the first group
PeriodAfterCharAt(t, j) ==
    /\ ~IsDigit(t[j])
    /\ CharIn(t, j + 1, {"."})
    /\ (j + 2 > Len(t) \/ ~IsDigit(t[j + 2]))

\* the alternative ^ of the first group, tried when the other one fails
PeriodAtStartAt(t, j) ==
    /\ j = 1
    /\ t[1] = "."
    /\ (2 > Len(t) \/ ~IsDigit(t[2]))

PeriodAt(t, j) == PeriodAfterCharAt(t, j) \/ PeriodAtStartAt(t, j)

PeriodEnd(t, j) ==
    LET last == IF PeriodAfterCharAt(t, j) THEN j + 2 ELSE 2
    IN  IF last > Len(t) THEN Len(t) ELSE last

PeriodRepl(t, j) ==
    IF PeriodAfterCharAt(t, j) THEN <<t[j]>> \o CharAt(t, j + 2) ELSE CharAt(t, 2)

\* ' +' -> ' '
SpacesAt(t, j) == t[j] = " "

SpacesEnd(t, j) == RunEnd(t, j, {" "})

SpacesRepl(t, j) == <<" ">>

\* (^| )0(\d+\/) -> \1\2, the alternative ^ of the first group
LeadingPadAtStartAt(t, j) ==
    LET e == RunEnd(t, 2, Digits)
    IN  j = 1 /\ t[1] = "0" /\ e >= 2 /\ CharIn(t, e + 1, {"/"})

\* the alternative ' ' of the first group
LeadingPadAfterSpaceAt(t, j) ==
    LET e == RunEnd(t, j + 2, Digits)
    IN  t[j] = " " /\ CharIn(t, j + 1, {"0"}) /\ e >= j + 2 /\ CharIn(t, e + 1, {"/"})

LeadingPadAt(t, j) == LeadingPadAtStartAt(t, j) \/ LeadingPadAfterSpaceAt(t, j)

LeadingPadEnd(t, j) ==
    IF LeadingPadAtStartAt(t, j) THEN RunEnd(t, 2, Digits) + 1
    ELSE RunEnd(t, j + 2, Digits) + 1

LeadingPadRepl(t, j) ==
    IF LeadingPadAtStartAt(t, j) THEN SubSeq(t, 2, LeadingPadEnd(t, j))
    ELSE <<" ">> \o SubSeq(t, j + 2, LeadingPadEnd(t, j))

\* (\/)0(\d+) -> \1\2
InnerPadAt(t, j) ==
    t[j] = "/" /\ CharIn(t, j + 1, {"0"}) /\ RunEnd(t, j + 2, Digits) >= j + 2

InnerPadEnd(t, j) == RunEnd(t, j + 2, Digits)

InnerPadRepl(t, j) == <<"/">> \o SubSeq(t, j + 2, InnerPadEnd(t, j))

\* ([.| ]\d+) ?(CALL(S)?)|CS -> \1C with word = CALL, short = CS, and
\* ([.| ]\d+) ?(PUT(S)?)|PS -> \1P with word = PUT, short = PS.
\* The position of the word after the number and the optional space:
VerboseWordAt(t, j) ==
    LET e == RunEnd(t, j + 1, Digits)
    IN  IF CharIn(t, e + 1, {" "}) THEN e + 2 ELSE e + 1

\* the first alternative: a number after '.', '|' or ' ', then the word
VerboseAfterNumberAt(t, j, word) ==
    /\ t[j] \in {".", "|", " "}
    /\ RunEnd(t, j + 1, Digits) >= j + 1
    /\ HasAt(t, VerboseWordAt(t, j), word)

VerboseAt(t, j, word, short) == VerboseAfterNumberAt(t, j, word) \/ HasAt(t, j, short)

VerboseEnd(t, j, word, short) ==
    IF VerboseAfterNumberAt(t, j, word)
    THEN LET w == VerboseWordAt(t, j)
         IN  IF CharIn(t, w + Len(word), {"S"}) THEN w + Len(word) ELSE w + Len(word) - 1
    ELSE j + Len(short) - 1

\* the group \1 is empty when the second alternative matched
VerboseRepl(t, j, word, short, letter) ==
    IF VerboseAfterNumberAt(t, j, word)
    THEN SubSeq(t, j, RunEnd(t, j + 1, Digits)) \o <<letter>>
    ELSE <<letter>>

\* (\d+) ([CP])( |[^A-Z]|$) -> \1\2\3
JoinTypeAt(t, j) ==
    LET e == RunEnd(t, j, Digits)
    IN  /\ e >= j
        /\ CharIn(t, e + 1, {" "})
        /\ CharIn(t, e + 2, {"C", "P"})
        /\ (e + 3 > Len(t) \/ t[e + 3] \notin UpperLetters)

JoinTypeEnd(t, j) ==
    LET e == RunEnd(t, j, Digits) IN IF e + 3 > Len(t) THEN Len(t) ELSE e + 3

JoinTypeRepl(t, j) ==
    LET e == RunEnd(t, j, Digits)
    IN  SubSeq(t, j, e) \o <<t[e + 2]>> \o CharAt(t, e + 3)

\* the emoji itself, for emoji.demojize
EmojiAt(t, j) == t[j] = Rocket

MatchAt(p, t, j) ==
    CASE p = "emoji"      -> EmojiAt(t, j)
      [] p = "emojiname"  -> EmojiNameAt(t, j)
      [] p = "url"        -> UrlAt(t, j)
      [] p = "period"     -> PeriodAt(t, j)
      [] p = "spaces"     -> SpacesAt(t, j)
      [] p = "leadingpad" -> LeadingPadAt(t, j)
      [] p = "innerpad"   -> InnerPadAt(t, j)
      [] p = "call"       -> VerboseAt(t, j, CALL, CS)
      [] p = "put"        -> VerboseAt(t, j, PUT, PS)
      [] p = "jointype"   -> JoinTypeAt(t, j)

MatchEnd(p, t, j) ==
    CASE p = "emoji"      -> j
      [] p = "emojiname"  -> EmojiNameEnd(t, j)
      [] p = "url"        -> UrlEnd(t, j)
      [] p = "period"     -> PeriodEnd(t, j)
      [] p = "spaces"     -> SpacesEnd(t, j)
      [] p = "leadingpad" -> LeadingPadEnd(t, j)
      [] p = "innerpad"   -> InnerPadEnd(t, j)
      [] p = "call"       -> VerboseEnd(t, j, CALL, CS)
      [] p = "put"        -> VerboseEnd(t, j, PUT, PS)
      [] p = "jointype"   -> JoinTypeEnd(t, j)

Replacement(p, t, j) ==
    CASE p = "emoji"      -> RocketName
      [] p = "emojiname"  -> EmojiNameRepl(t, j)
      [] p = "url"        -> UrlRepl(t, j)
      [] p = "period"     -> PeriodRepl(t, j)
      [] p = "spaces"     -> SpacesRepl(t, j)
      [] p = "leadingpad" -> LeadingPadRepl(t, j)
      [] p = "innerpad"   -> InnerPadRepl(t, j)
      [] p = "call"       -> VerboseRepl(t, j, CALL, CS, "C")
      [] p = "put"        -> VerboseRepl(t, j, PUT, PS, "P")
      [] p = "jointype"   -> JoinTypeRepl(t, j)

RECURSIVE SubFrom(_, _, _)
\* re.sub(p, replacement, t) from position i on: the leftmost match is
\* replaced and the scan goes on after it
SubFrom(p, t, i) ==
    IF \A j \in i..Len(t) : ~MatchAt(p, t, j) THEN SubSeq(t, i, Len(t))
    ELSE LET j == CHOOSE k \in i..Len(t) :
                      MatchAt(p, t, k) /\ \A l \in i..(k - 1) : ~MatchAt(p, t, l)
         IN  SubSeq(t, i, j - 1) \o Replacement(p, t, j)
                 \o SubFrom(p, t, MatchEnd(p, t, j) + 1)

Sub(p, t) == SubFrom(p, t, 1)

(***************************************************************************)
(* TextParser                                                              *)
(***************************************************************************)
\* re.sub(r'[^A-Za-z ]', r' ', text): a space for each other character
alphaSpaced(text) == [i \in 1..Len(text) |-> IF text[i] \in Letters \cup {" "} THEN text[i] ELSE " "]

alpha(text) == Keep(text, Letters \cup {" "})

numeric(text) == Keep(text, Digits \cup {" "})

alphanumeric(text) == Keep(text, Letters \cup Digits \cup {" "})

\* emoji.demojize, then re.sub(r'(:[A-Za-z_]+:)', r' \1 ', text)
replace_emojis(text) == Sub("emojiname", Sub("emoji", text))

words(text) == Split(Upper(alpha(replace_emojis(text))))

(***************************************************************************)
(* ContractParser._contract_elements                                       *)
(***************************************************************************)
\* re.sub(r'[\n@]', r' ', text)
ReplaceNewlineAt(t) ==
    [i \in 1..Len(t) |-> IF t[i] \in {"\n", "@"} THEN " " ELSE t[i]]

\* re.sub(r'[^A-Za-z0-9\/. ]+', r'', text)
RemoveSpecial(t) == Keep(t, Letters \cup Digits \cup {"/", ".", " "})

\* the text before the contract types are rewritten
BeforeVerbose(text) ==
    Sub("innerpad", Sub("leadingpad",                 \* lines 320-321
      Sub("spaces",                                   \* line 317
        RemoveSpecial(                                \* line 314
          Sub("period",                               \* line 311
            ReplaceNewlineAt(                         \* line 308
              Sub("url", Upper(text))))))))           \* lines 302, 305

\* the text that _contract_elements splits and classifies
Rewrite(text) ==
    Sub("jointype",                                   \* line 328
      Sub("put", Sub("call",                          \* lines 324-325
        BeforeVerbose(text))))

\* re.search(r'\d+[CP]', word)
HasStrikeShape(w) ==
    \E i \in 1..(Len(w) - 1) : IsDigit(w[i]) /\ w[i + 1] \in {"C", "P"}

\* re.search(r'\d+', word)
HasDigit(w) == \E i \in 1..Len(w) : IsDigit(w[i])

\* re.search(r'(\d+\/\d+(?:\/\d+)?)', word)
HasDateShape(w) ==
    \E i \in 1..(Len(w) - 2) : IsDigit(w[i]) /\ w[i + 1] = "/" /\ IsDigit(w[i + 2])

\* the test of PUT before the test of CALL
ClassifyPutFirst(word, t, valid) ==
    IF word \in valid THEN << <<"ticker", word>> >>
    ELSE IF HasStrikeShape(word) THEN << <<"strike", word>> >>
    ELSE IF (\A i \in 1..Len(word) : word[i] # "/") /\ HasDigit(word)
         THEN IF Contains(t, PUT) THEN << <<"strike", Append(word, "P")>> >>
              ELSE IF Contains(t, CALL) THEN << <<"strike", Append(word, "C")>> >>
              ELSE <<>>
    ELSE IF HasDateShape(word) THEN << <<"date", word>> >>
    ELSE <<>>

\* a number without a type is a call when the text names no type
ClassifyDefaultCall(word, t, valid) ==
    IF word \in valid THEN << <<"ticker", word>> >>
    ELSE IF HasStrikeShape(word) THEN << <<"strike", word>> >>
    ELSE IF (\A i \in 1..Len(word) : word[i] # "/") /\ HasDigit(word)
         THEN IF Contains(t, PUT) /\ ~Contains(t, CALL)
              THEN << <<"strike", Append(word, "P")>> >>
              ELSE << <<"strike", Append(word, "C")>> >>
    ELSE IF HasDateShape(word) THEN << <<"date", word>> >>
    ELSE <<>>

\* the classification of one word of the rewritten text t: a sequence of no
\* or one tagged element
Classify(word, t, valid) ==
    IF word \in valid THEN << <<"ticker", word>> >>
    ELSE IF HasStrikeShape(word) THEN << <<"strike", word>> >>
    ELSE IF (\A i \in 1..Len(word) : word[i] # "/") /\ HasDigit(word)
         THEN IF Contains(t, CALL) THEN << <<"strike", Append(word, "C")>> >>
              ELSE IF Contains(t, PUT) THEN << <<"strike", Append(word, "P")>> >>
              ELSE <<>>
    ELSE IF HasDateShape(word) THEN << <<"date", word>> >>
    ELSE <<>>

RECURSIVE ClassifyAll(_, _, _)
ClassifyAll(ws, t, valid) ==
    IF ws = <<>> THEN <<>>
    ELSE Classify(Head(ws), t, valid) \o ClassifyAll(Tail(ws), t, valid)

_contract_elements(text, valid) ==
    LET t == Rewrite(text) IN ClassifyAll(Split(t), t, valid)

(***************************************************************************)
(* float(str).  A float is kept as the decimal it denotes, m * 10^e with   *)
(* m not divisible by 10 (0 is m = 0, e = 0), so that two numerals denote  *)
(* the same float exactly when their values are equal; numerals here are   *)
(* short enough for the double nearest to each to be distinct and finite  *)
(* (the overflow of a long exponent to inf is not modelled).  "err" is the *)
(* ValueError that float raises.                                           *)
(***************************************************************************)
DigitVal(c) == (CHOOSE k \in 1..Len(DigitSeq) : DigitSeq[k] = c) - 1

RECURSIVE Num(_)
Num(ds) == IF ds = <<>> THEN 0
           ELSE 10 * Num(SubSeq(ds, 1, Len(ds) - 1)) + DigitVal(ds[Len(ds)])

RECURSIVE Normalize(_, _)
Normalize(m, e) ==
    IF m = 0 THEN [kind |-> "num", m |-> 0, e |-> 0]
    ELSE IF m % 10 = 0 THEN Normalize(m \div 10, e + 1)
    ELSE [kind |-> "num", m |-> m, e |-> e]

FloatError == [kind |-> "err", m |-> 0, e |-> 0]
FloatInf(sign) == [kind |-> "inf", m |-> sign, e |-> 0]
FloatNan == [kind |-> "nan", m |-> 0, e |-> 0]

\* the numeral s[p..] without its sign: digits [. digits] | . digits,
\* then optionally E [sign] digits, up to the end of s
ParseUnsigned(s, p, sign) ==
    LET intEnd  == RunEnd(s, p, Digits)
        hasDot  == CharIn(s, intEnd + 1, {"."})
        fracEnd == IF hasDot THEN RunEnd(s, intEnd + 2, Digits) ELSE intEnd
        intDs   == SubSeq(s, p, intEnd)
        fracDs  == IF hasDot THEN SubSeq(s, intEnd + 2, fracEnd) ELSE <<>>
        hasExp  == CharIn(s, fracEnd + 1, {"E", "e"})
        expNeg  == CharIn(s, fracEnd + 2, {"-"})
        expFrom == IF CharIn(s, fracEnd + 2, {"+", "-"}) THEN fracEnd + 3 ELSE fracEnd + 2
        expEnd  == RunEnd(s, expFrom, Digits)
        expDs   == SubSeq(s, expFrom, expEnd)
        mant    == sign * Num(intDs \o fracDs)
    IN  IF intDs = <<>> /\ fracDs = <<>> THEN FloatError
        ELSE IF fracEnd = Len(s) THEN Normalize(mant, 0 - Len(fracDs))
        ELSE IF hasExp /\ expDs # <<>> /\ expEnd = Len(s)
             THEN Normalize(mant, (IF expNeg THEN 0 - Num(expDs) ELSE Num(expDs))
                                      - Len(fracDs))
        ELSE FloatError

InfNames == {Chars("INF"), Chars("INFINITY")}
NanName == Chars("NAN")

float(s) ==
    LET neg  == CharIn(s, 1, {"-"})
        p    == IF CharIn(s, 1, {"+", "-"}) THEN 2 ELSE 1
        sign == IF neg THEN 0 - 1 ELSE 1
        rest == Upper(SubSeq(s, p, Len(s)))
    IN  IF rest \in InfNames THEN FloatInf(sign)
        ELSE IF rest = NanName THEN FloatNan
        ELSE ParseUnsigned(s, p, sign)

RECURSIVE Above(_, _, _)
\* m * 10^e > n
Above(m, e, n) ==
    IF m <= 0 THEN (n < 0 /\ (m = 0 \/ ~Above(0 - m, e, 0 - n - 1)))
    ELSE IF n < 0 THEN TRUE
    ELSE IF e = 0 THEN m > n
    ELSE IF e > 0 THEN m > n \/ Above(m * 10, e - 1, n)
    ELSE m > n /\ Above(m, e + 1, n * 10)

\* v > n for a float v and an integer n, as Python compares them
FloatGreater(v, n) ==
    CASE v.kind = "num" -> Above(v.m, v.e, n)
      [] v.kind = "inf" -> v.m > 0
      [] OTHER          -> FALSE


(***************************************************************************)
(* Inputs                                                                  *)
(***************************************************************************)
MaxFrags == 4

MaxLen == 4

\* the universes a parser is constructed with
Universes == {{}, {Chars("AAPL"), Chars("GME")}}

\* the pieces of the texts given to contracts and contract_counts: a triple
\* with a strike above the threshold, one with a strike at the threshold, one
\* with a strike that is no number, and a lone ticker, strike and date
ContractFrags ==
    {Chars("1/15 AAPL 150C"), Chars("GME 2/2 5C"), Chars("GME 2/2 X1C"),
     Chars("GME"), Chars("7.5P"), Chars("2/2")}

\* the pieces of the texts given to tickers and ticker_counts
TickerFrags ==
    {Chars("AAPL"), Chars("gme"), Chars("moon!"), Chars("AAPL\nGME"), <<Rocket>>}

\* the characters of the texts given to the filters
FilterChars == {"a", "Z", "7", " ", "!", "\n"}

RECURSIVE Joined(_, _)
\* the texts of at most n pieces of F, separated by one space
Joined(F, n) ==
    IF n = 0 THEN {<<>>}
    ELSE LET S == Joined(F, n - 1)
         IN  S \cup {IF s = <<>> THEN f ELSE s \o <<" ">> \o f : s \in S, f \in F}

ContractTexts == Joined(ContractFrags, MaxFrags)

TickerTexts == Joined(TickerFrags, MaxFrags)

FilterTexts == UNION {[1..n -> FilterChars] : n \in 0..MaxLen}

\* the universe of the parser that is given the texts below
RewriteUniverse == {Chars("AAPL"), Chars("CSCO")}

RECURSIVE Concat(_, _)
\* the texts of at most n pieces of F, one written after the other
Concat(F, n) ==
    IF n = 0 THEN {<<>>}
    ELSE LET S == Concat(F, n - 1) IN S \cup {s \o f : s \in S, f \in F}

\* texts with links: a ticker, a strike and a date inside and outside of a
\* link, a link that ends at a space or at a newline
UrlTexts ==
    Concat({Chars("http:"), Chars("AAPL "), Chars("150C "), Chars("1/15") \o <<"\n">>,
            Chars("AAPL-"), Chars("150C-")}, MaxFrags)

\* the strings of at most n characters of A
Strings(A, n) == UNION {[1..k -> A] : k \in 0..n}

\* texts with periods: a word of digits, periods, slashes, letters and
\* spaces, alone or after a ticker and a strike
PeriodTexts ==
    {pre \o w : pre \in {<<>>, Chars("AAPL 150C ")}, w \in Strings({"1", ".", "/", "A", " "}, MaxLen)}

\* texts with one word of digits, periods and letters after a ticker and a
\* date, alone or followed by a strike
StrikeTexts ==
    {Chars("AAPL 1/15 ") \o w \o post :
        w \in Strings({"7", ".", "C", "P", "E"}, MaxLen), post \in {<<>>, Chars(" 150C")}}

\* texts of tickers, dates, numbers without a type, and the words CALL and
\* PUTS
InferTexts ==
    Joined({Chars("AAPL"), Chars("1/15"), Chars("150"), Chars("7.5"), Chars("CALL"),
            Chars("PUTS")}, MaxFrags)

\* texts with a period at the end of a date, with a ticker that has CS in it,
\* and with a word that has a strike inside it
EdgeTexts ==
    {Chars("AAPL 150C 1/15."), Chars("CSCO 150C 1/15"), Chars("AAPL 1/15 X150CY 150C")}

\* the texts given to contracts to follow the steps of _contract_elements
RewriteTexts == UrlTexts \cup PeriodTexts \cup StrikeTexts \cup InferTexts \cup EdgeTexts

\* the largest number of attempts a scraper is constructed with
MaxAttempts == 3

\* the number of pages after which Pushshift has no more data
MaxPages == 3

\* the texts of the callers that use one parser at the same time
CallerTexts ==
    {<<>>, Chars("1/15 AAPL 150C"), Chars("GME 2/2 7.5P"),
     Chars("GME 2/2 7.5P 1/15 AAPL 150C")}

(***************************************************************************)
(* State                                                                   *)
(***************************************************************************)
VARIABLES
    valid_tickers, ignore_duplicates,      \* the configuration of the parser
    pc, op, text,                          \* the call in progress
    contract_elements, idx,                \* locals of contracts: the list and
    ticker, strike, date,                  \*   the loop position, the slots,
    contracts_df,                          \*   the frame of mentions
    result, raised,                        \* what the call returned or raised
    tickerAt, strikeAt, dateAt,            \* history: the element in each slot
    attempts,                              \* history: the finalize attempts
    ignore_duplicates_arg,                 \* history: the argument of __init__
    calls,                                 \* the frames of concurrent callers
    self_attempts,                         \* PostScraper.attempts
    spc, sop, target, attempt, posts,      \* the scraper call in progress
    sraised,                               \* what the scraper call raised
    page, reqlog                           \* history: the requests of the call

config == <<valid_tickers, ignore_duplicates>>
locals == <<contract_elements, idx, ticker, strike, date, contracts_df>>
history == <<tickerAt, strikeAt, dateAt, attempts>>
scraper == <<self_attempts, spc, sop, target, attempt, posts, sraised, page, reqlog>>
others == <<ignore_duplicates_arg, calls, scraper>>
vars == <<config, pc, op, text, locals, result, raised, history, others>>

\* the empty slot (None); no token is the empty string
None == <<>>

StrikeThreshold == 5

\* the default of the parameter ignore_duplicates of TickerParser.__init__
DefaultIgnoreDuplicates == TRUE

\* self.ignore_duplicates after __init__ was called with the argument arg
ConstructedWith(arg) == IF arg = "omitted" THEN DefaultIgnoreDuplicates ELSE arg = "True"

\* the callers that may use one parser at the same time
Callers == {1, 2}

\* the frame of a caller that is in no call
IdleFrame ==
    [pc |-> "idle", op |-> "none", text |-> <<>>, contract_elements |-> <<>>, idx |-> 0,
     ticker |-> None, strike |-> None, date |-> None, contracts_df |-> <<>>,
     result |-> <<>>,
     interleaved |-> FALSE]      \* history: another caller stepped meanwhile

\* no call of the parser or of the scraper is in progress
NoCall ==
    /\ pc = "idle"
    /\ raised = FALSE
    /\ op = "none" /\ text = <<>>
    /\ contract_elements = <<>> /\ idx = 0
    /\ ticker = None /\ strike = None /\ date = None
    /\ contracts_df = <<>>
    /\ result = <<>>
    /\ tickerAt = 0 /\ strikeAt = 0 /\ dateAt = 0
    /\ attempts = <<>>
    /\ calls = [c \in Callers |-> IdleFrame]
    /\ spc = "idle" /\ sop = "none" /\ target = "none" /\ attempt = 0
    /\ posts = "unbound"
    /\ sraised = "none" /\ page = 0 /\ reqlog = <<>>

\* TickerParser.__init__ / ContractParser.__init__; the object is no scraper
\* and has no attribute attempts
Init ==
    /\ valid_tickers \in Universes
    /\ ignore_duplicates_arg \in {"omitted", "True", "False"}
    /\ ignore_duplicates = ConstructedWith(ignore_duplicates_arg)
    /\ self_attempts = 0
    /\ NoCall

\* the caller takes the result; nothing of the call is kept
Return ==
    /\ pc = "done"
    /\ pc' = "idle"
    /\ raised' = FALSE
    /\ op' = "none" /\ text' = <<>>
    /\ contract_elements' = <<>> /\ idx' = 0
    /\ ticker' = None /\ strike' = None /\ date' = None
    /\ contracts_df' = <<>>
    /\ result' = <<>>
    /\ tickerAt' = 0 /\ strikeAt' = 0 /\ dateAt' = 0
    /\ attempts' = <<>>
    /\ UNCHANGED <<config, others>>

(***************************************************************************)
(* TextParser.alpha, numeric, alphanumeric as calls                        *)
(***************************************************************************)
CallAlpha ==
    /\ pc = "idle"
    /\ \E t \in FilterTexts : text' = t /\ result' = alpha(t)
    /\ op' = "alpha"
    /\ pc' = "done"
    /\ UNCHANGED <<config, others, locals, raised, history>>

CallNumeric ==
    /\ pc = "idle"
    /\ \E t \in FilterTexts : text' = t /\ result' = numeric(t)
    /\ op' = "numeric"
    /\ pc' = "done"
    /\ UNCHANGED <<config, others, locals, raised, history>>

CallAlphanumeric ==
    /\ pc = "idle"
    /\ \E t \in FilterTexts : text' = t /\ result' = alphanumeric(t)
    /\ op' = "alphanumeric"
    /\ pc' = "done"
    /\ UNCHANGED <<config, others, locals, raised, history>>

NextFilters == CallAlpha \/ CallNumeric \/ CallAlphanumeric \/ Return

SpecFilters == Init /\ [][NextFilters]_vars

(***************************************************************************)
(* TickerParser.tickers and ticker_counts                                  *)
(***************************************************************************)
Range(s) == {s[k] : k \in 1..Len(s)}

\* the lists that list(S) can be: the order of a set is not specified
ListsOf(S) ==
    {l \in [1..Cardinality(S) -> S] : \A a, b \in 1..Cardinality(S) : l[a] = l[b] => a = b}

IntersectionAllWords(ws, valid) == Range(ws)

\* set(words) & set(self.valid_tickers)
Intersection(ws, valid) == Range(ws) \cap valid

RECURSIVE MatchingNoRepeat(_, _)
MatchingNoRepeat(ws, valid) ==
    IF ws = <<>> THEN <<>>
    ELSE LET init == MatchingNoRepeat(SubSeq(ws, 1, Len(ws) - 1), valid)
             w == ws[Len(ws)]
         IN  IF w \in valid /\ w \notin Range(init) THEN Append(init, w) ELSE init

\* [w for w in words if w in self.valid_tickers]
Matching(ws, valid) == SelectSeq(ws, LAMBDA w : w \in valid)

tickers ==
    /\ pc = "idle"
    /\ \E t \in TickerTexts :
          /\ text' = t
          /\ IF ignore_duplicates
             THEN result' \in ListsOf(Intersection(words(t), valid_tickers))
             ELSE result' = Matching(words(t), valid_tickers)
    /\ op' = "tickers"
    /\ pc' = "done"
    /\ UNCHANGED <<config, others, locals, raised, history>>

CountOfDeduped(ws, w) == IF ignore_duplicates THEN 1 ELSE Cardinality({k \in 1..Len(ws) : ws[k] = w})

\* collections.Counter(words)[w]
CountOf(ws, w) == Cardinality({k \in 1..Len(ws) : ws[k] = w})

\* the frame of ticker_counts.items(); the rows are kept as a set, the order
\* of a dict built from a set is not specified
ticker_counts ==
    /\ pc = "idle"
    /\ \E t \in TickerTexts :
          /\ text' = t
          /\ result' = {[ticker |-> w, count |-> CountOf(words(t), w)] :
                            w \in Intersection(words(t), valid_tickers)}
    /\ op' = "ticker_counts"
    /\ pc' = "done"
    /\ UNCHANGED <<config, others, locals, raised, history>>

NextTickers == tickers \/ ticker_counts \/ Return

SpecTickers == Init /\ [][NextTickers]_vars

(***************************************************************************)
(* ContractParser.contracts and contract_counts                            *)
(***************************************************************************)
\* contracts(text) up to the loop: the frame, the elements, the empty slots
contracts ==
    /\ pc = "idle"
    /\ \E t \in ContractTexts :
          /\ text' = t
          /\ contract_elements' = _contract_elements(t, valid_tickers)
    /\ op' = "contracts"
    /\ idx' = 0
    /\ ticker' = None /\ strike' = None /\ date' = None
    /\ contracts_df' = <<>>
    /\ pc' = "loop"
    /\ UNCHANGED <<config, others, result, raised, history>>

\* contract_counts(text) up to the loop of the contracts(text) it calls
contract_counts ==
    /\ pc = "idle"
    /\ \E t \in ContractTexts :
          /\ text' = t
          /\ contract_elements' = _contract_elements(t, valid_tickers)
    /\ op' = "contract_counts"
    /\ idx' = 0
    /\ ticker' = None /\ strike' = None /\ date' = None
    /\ contracts_df' = <<>>
    /\ pc' = "loop"
    /\ UNCHANGED <<config, others, result, raised, history>>

AssignedFirst(element, slot, kind) ==
    IF element[1] = kind /\ slot = None THEN element[2] ELSE slot

\* the assignment of one element to the slot of a kind
Assigned(element, slot, kind) == IF element[1] = kind THEN element[2] ELSE slot

AssignedAt(element, at, kind, i) == IF element[1] = kind THEN i ELSE at

\* one iteration of the loop up to the test of the three slots
LoopAssign ==
    /\ pc = "loop"
    /\ idx < Len(contract_elements)
    /\ LET element == contract_elements[idx + 1]
           tk == Assigned(element, ticker, "ticker")
           st == Assigned(element, strike, "strike")
           dt == Assigned(element, date, "date")
       IN  /\ ticker' = tk /\ strike' = st /\ date' = dt
           /\ tickerAt' = AssignedAt(element, tickerAt, "ticker", idx + 1)
           /\ strikeAt' = AssignedAt(element, strikeAt, "strike", idx + 1)
           /\ dateAt' = AssignedAt(element, dateAt, "date", idx + 1)
           /\ pc' = IF tk # None /\ st # None /\ dt # None THEN "finalize" ELSE "loop"
    /\ idx' = idx + 1
    /\ UNCHANGED <<config, others, op, text, contract_elements, contracts_df, result, raised,
                   attempts>>

\* 'call' if 'P' in strike else 'put'
ContractTypeSwapped(s) == IF \E i \in 1..Len(s) : s[i] = "P" THEN "call" ELSE "put"

\* 'call' if 'C' in strike else 'put'
ContractType(s) == IF \E i \in 1..Len(s) : s[i] = "C" THEN "call" ELSE "put"

\* strike[:-1]
DropLast(s) == SubSeq(s, 1, Len(s) - 1)

PassesThresholdOrEqual(v) ==
    FloatGreater(v, StrikeThreshold) \/ v = Normalize(StrikeThreshold, 0)

\* strike > 5
PassesThreshold(v) == FloatGreater(v, StrikeThreshold)

\* the entry of the history for the attempt in progress
Attempt(o) ==
    [at |-> idx, ticker |-> tickerAt, strike |-> strikeAt, date |-> dateAt,
     outcome |-> o]

\* the try block with the reset of the slots inside "if strike > 5"
FinalizeResetOnEmit ==
    /\ pc = "finalize"
    /\ LET v == float(DropLast(strike))
           contract == [ticker |-> ticker, strike |-> v,
                        type |-> ContractType(strike), date |-> date]
       IN  IF v.kind # "err" /\ PassesThreshold(v)
           THEN /\ contracts_df' = Append(contracts_df, contract)
                /\ attempts' = Append(attempts, Attempt("emitted"))
                /\ ticker' = None /\ strike' = None /\ date' = None
                /\ tickerAt' = 0 /\ strikeAt' = 0 /\ dateAt' = 0
           ELSE /\ contracts_df' = contracts_df
                /\ attempts' = Append(attempts,
                                  Attempt(IF v.kind = "err" THEN "unparseable" ELSE "below"))
                /\ UNCHANGED <<ticker, strike, date, tickerAt, strikeAt, dateAt>>
    /\ pc' = "loop"
    /\ UNCHANGED <<config, others, op, text, contract_elements, idx, result, raised>>

\* the try block without its except clause: the ValueError leaves the call
FinalizeUncaught ==
    /\ pc = "finalize"
    /\ LET v == float(DropLast(strike))
           contract == [ticker |-> ticker, strike |-> v,
                        type |-> ContractType(strike), date |-> date]
       IN  IF v.kind = "err"
           THEN /\ raised' = TRUE
                /\ pc' = "done"
                /\ attempts' = Append(attempts, Attempt("unparseable"))
                /\ UNCHANGED <<contracts_df, ticker, strike, date,
                               tickerAt, strikeAt, dateAt>>
           ELSE /\ contracts_df' = IF PassesThreshold(v)
                                   THEN Append(contracts_df, contract) ELSE contracts_df
                /\ attempts' = Append(attempts,
                                  Attempt(IF PassesThreshold(v) THEN "emitted" ELSE "below"))
                /\ ticker' = None /\ strike' = None /\ date' = None
                /\ tickerAt' = 0 /\ strikeAt' = 0 /\ dateAt' = 0
                /\ pc' = "loop"
                /\ raised' = raised
    /\ UNCHANGED <<config, others, op, text, contract_elements, idx, result>>

\* the body of "if ticker and strike and date": the try block, its except
\* clause, which catches the ValueError of float, and the reset of the slots
Finalize ==
    /\ pc = "finalize"
    /\ LET v == float(DropLast(strike))
           contract == [ticker |-> ticker, strike |-> v,
                        type |-> ContractType(strike), date |-> date]
       IN  IF v.kind = "err"
           THEN /\ contracts_df' = contracts_df
                /\ attempts' = Append(attempts, Attempt("unparseable"))
           ELSE IF PassesThreshold(v)
           THEN /\ contracts_df' = Append(contracts_df, contract)
                /\ attempts' = Append(attempts, Attempt("emitted"))
           ELSE /\ contracts_df' = contracts_df
                /\ attempts' = Append(attempts, Attempt("below"))
    /\ ticker' = None /\ strike' = None /\ date' = None
    /\ tickerAt' = 0 /\ strikeAt' = 0 /\ dateAt' = 0
    /\ pc' = "loop"
    /\ UNCHANGED <<config, others, op, text, contract_elements, idx, result, raised>>

RECURSIVE drop_duplicates_keep_last(_)
drop_duplicates_keep_last(df) ==
    IF df = <<>> THEN <<>>
    ELSE LET rest == drop_duplicates_keep_last(Tail(df))
         IN  IF \E k \in 1..Len(rest) : rest[k] = Head(df) THEN rest
             ELSE <<Head(df)>> \o rest

RECURSIVE drop_duplicates(_)
\* DataFrame.drop_duplicates(): the first of equal rows is kept
drop_duplicates(df) ==
    IF df = <<>> THEN <<>>
    ELSE LET init == drop_duplicates(SubSeq(df, 1, Len(df) - 1))
             row == df[Len(df)]
         IN  IF \E k \in 1..Len(init) : init[k] = row THEN init ELSE Append(init, row)

\* the return of contracts, to the user or to contract_counts
ContractsReturn ==
    /\ pc = "loop"
    /\ idx = Len(contract_elements)
    /\ result' = IF ignore_duplicates THEN drop_duplicates(contracts_df) ELSE contracts_df
    /\ pc' = IF op = "contract_counts" THEN "group" ELSE "done"
    /\ UNCHANGED <<config, others, op, text, locals, raised, history>>

\* groupby(all columns).size(), renamed to count: one row for each distinct
\* row of the frame, with the number of rows equal to it.  The rows are kept
\* as a set; their order in the frame is not modelled.
GroupSize(df) ==
    {[ticker |-> df[k].ticker, strike |-> df[k].strike, type |-> df[k].type,
      date |-> df[k].date,
      count |-> Cardinality({j \in 1..Len(df) : df[j] = df[k]})] : k \in 1..Len(df)}

\* contract_counts after its call of contracts
ContractCountsGroup ==
    /\ pc = "group"
    /\ result' = GroupSize(result)
    /\ pc' = "done"
    /\ UNCHANGED <<config, others, op, text, locals, raised, history>>

NextContracts ==
    \/ contracts
    \/ contract_counts
    \/ LoopAssign
    \/ Finalize
    \/ ContractsReturn
    \/ ContractCountsGroup
    \/ Return

SpecContracts == Init /\ [][NextContracts]_vars

(***************************************************************************)
(* ContractParser.contracts on the texts that follow the rewriting steps   *)
(***************************************************************************)
InitRewrite ==
    /\ valid_tickers = RewriteUniverse
    /\ ignore_duplicates_arg \in {"omitted", "False"}
    /\ ignore_duplicates = ConstructedWith(ignore_duplicates_arg)
    /\ self_attempts = 0
    /\ NoCall

\* contracts(text) up to the loop
contracts_rewrite ==
    /\ pc = "idle"
    /\ \E t \in RewriteTexts :
          /\ text' = t
          /\ contract_elements' = _contract_elements(t, valid_tickers)
    /\ op' = "contracts"
    /\ idx' = 0
    /\ ticker' = None /\ strike' = None /\ date' = None
    /\ contracts_df' = <<>>
    /\ pc' = "loop"
    /\ UNCHANGED <<config, others, result, raised, history>>

NextRewrite ==
    \/ contracts_rewrite
    \/ LoopAssign
    \/ Finalize
    \/ ContractsReturn
    \/ Return

SpecRewrite == InitRewrite /\ [][NextRewrite]_vars

(***************************************************************************)
(* Several callers in the methods of one parser at the same time.  Each    *)
(* call has its own frame of locals, calls[c]; the attributes of the       *)
(* object, valid_tickers and ignore_duplicates, are shared.  A step of a   *)
(* caller is one atomic action, the steps of the callers interleave.       *)
(***************************************************************************)
\* the call of the parser by one caller alone is not in progress
single == <<pc, op, text, locals, result, raised, history>>

\* the frames after caller c moved to frame f: every other caller that is
\* inside a call has seen a step of c
Stepped(c, f) ==
    [d \in Callers |->
        IF d = c THEN f
        ELSE IF calls[d].pc \in {"idle", "done"} THEN calls[d]
        ELSE [calls[d] EXCEPT !.interleaved = TRUE]]

\* contracts(text) of caller c up to the loop
caller_contracts ==
    \E c \in Callers, t \in CallerTexts :
        /\ calls[c].pc = "idle"
        /\ calls' = Stepped(c, [IdleFrame EXCEPT
                !.pc = "loop", !.op = "contracts", !.text = t,
                !.contract_elements = _contract_elements(t, valid_tickers)])
        /\ UNCHANGED <<config, single, ignore_duplicates_arg, scraper>>

\* contract_counts(text) of caller c up to the loop of the contracts(text)
\* it calls
caller_contract_counts ==
    \E c \in Callers, t \in CallerTexts :
        /\ calls[c].pc = "idle"
        /\ calls' = Stepped(c, [IdleFrame EXCEPT
                !.pc = "loop", !.op = "contract_counts", !.text = t,
                !.contract_elements = _contract_elements(t, valid_tickers)])
        /\ UNCHANGED <<config, single, ignore_duplicates_arg, scraper>>

\* tickers(text) of caller c
caller_tickers ==
    \E c \in Callers, t \in CallerTexts :
        /\ calls[c].pc = "idle"
        /\ \E r \in IF ignore_duplicates
                     THEN ListsOf(Intersection(words(t), valid_tickers))
                     ELSE {Matching(words(t), valid_tickers)} :
               calls' = Stepped(c, [IdleFrame EXCEPT
                                       !.pc = "done", !.op = "tickers", !.text = t,
                                       !.result = r])
        /\ UNCHANGED <<config, single, ignore_duplicates_arg, scraper>>

\* ticker_counts(text) of caller c
caller_ticker_counts ==
    \E c \in Callers, t \in CallerTexts :
        /\ calls[c].pc = "idle"
        /\ calls' = Stepped(c, [IdleFrame EXCEPT
                !.pc = "done", !.op = "ticker_counts", !.text = t,
                !.result = {[ticker |-> w, count |-> CountOf(words(t), w)] :
                                w \in Intersection(words(t), valid_tickers)}])
        /\ UNCHANGED <<config, single, ignore_duplicates_arg, scraper>>

\* one iteration of the loop of caller c up to the test of the three slots
CallerLoopAssign ==
    \E c \in Callers :
        LET f == calls[c] IN
        /\ f.pc = "loop"
        /\ f.idx < Len(f.contract_elements)
        /\ LET element == f.contract_elements[f.idx + 1]
               tk == Assigned(element, f.ticker, "ticker")
               st == Assigned(element, f.strike, "strike")
               dt == Assigned(element, f.date, "date")
           IN  calls' = Stepped(c, [f EXCEPT
                   !.ticker = tk, !.strike = st, !.date = dt, !.idx = f.idx + 1,
                   !.pc = IF tk # None /\ st # None /\ dt # None
                          THEN "finalize" ELSE "loop"])
        /\ UNCHANGED <<config, single, ignore_duplicates_arg, scraper>>

\* the mention that the slots of frame f make, appended to the frame df when
\* the strike is a number above the threshold
Emitted(f, df) ==
    LET v == float(DropLast(f.strike))
        contract == [ticker |-> f.ticker, strike |-> v,
                     type |-> ContractType(f.strike), date |-> f.date]
    IN  IF v.kind # "err" /\ PassesThreshold(v) THEN Append(df, contract) ELSE df

\* the frame of mentions kept on the object: a mention of one caller is
\* appended to the frame of every caller inside contracts
CallerFinalizeShared ==
    \E c \in Callers :
        LET f == calls[c] IN
        /\ f.pc = "finalize"
        /\ calls' = [d \in Callers |->
                IF d = c
                THEN [f EXCEPT !.contracts_df = Emitted(f, f.contracts_df),
                               !.ticker = None, !.strike = None, !.date = None,
                               !.pc = "loop"]
                ELSE IF calls[d].pc \in {"idle", "done"} THEN calls[d]
                ELSE [calls[d] EXCEPT !.contracts_df = Emitted(f, calls[d].contracts_df),
                                      !.interleaved = TRUE]]
        /\ UNCHANGED <<config, single, ignore_duplicates_arg, scraper>>

\* the body of "if ticker and strike and date" of caller c
CallerFinalize ==
    \E c \in Callers :
        LET f == calls[c] IN
        /\ f.pc = "finalize"
        /\ calls' = Stepped(c, [f EXCEPT
                !.contracts_df = Emitted(f, f.contracts_df),
                !.ticker = None, !.strike = None, !.date = None,
                !.pc = "loop"])
        /\ UNCHANGED <<config, single, ignore_duplicates_arg, scraper>>

\* the return of contracts of caller c, to the caller or to contract_counts
CallerContractsReturn ==
    \E c \in Callers :
        LET f == calls[c] IN
        /\ f.pc = "loop"
        /\ f.idx = Len(f.contract_elements)
        /\ calls' = Stepped(c, [f EXCEPT
                !.result = IF ignore_duplicates THEN drop_duplicates(f.contracts_df)
                           ELSE f.contracts_df,
                !.pc = IF f.op = "contract_counts" THEN "group" ELSE "done"])
        /\ UNCHANGED <<config, single, ignore_duplicates_arg, scraper>>

\* contract_counts of caller c after its call of contracts
CallerContractCountsGroup ==
    \E c \in Callers :
        LET f == calls[c] IN
        /\ f.pc = "group"
        /\ calls' = Stepped(c, [f EXCEPT !.result = GroupSize(f.result), !.pc = "done"])
        /\ UNCHANGED <<config, single, ignore_duplicates_arg, scraper>>

\* caller c takes the result; the frame of the call is gone
CallerReturn ==
    \E c \in Callers :
        /\ calls[c].pc = "done"
        /\ calls' = Stepped(c, IdleFrame)
        /\ UNCHANGED <<config, single, ignore_duplicates_arg, scraper>>

NextConcurrent ==
    \/ caller_tickers
    \/ caller_ticker_counts
    \/ caller_contracts
    \/ caller_contract_counts
    \/ CallerLoopAssign
    \/ CallerFinalize
    \/ CallerContractsReturn
    \/ CallerContractCountsGroup
    \/ CallerReturn

SpecConcurrent == Init /\ [][NextConcurrent]_vars

(***************************************************************************)
(* PostScraper.historic_posts and CommentScraper.historic_comments: the    *)
(* loop over the pages and, for each page, the loop over the attempts of   *)
(* the request.  posts is the variable that holds the data of a page       *)
(* (posts in historic_posts, comments in historic_comments): unbound       *)
(* before the first assignment, then an empty or a non-empty list.         *)
(***************************************************************************)
\* PostScraper.__init__ / CommentScraper.__init__
InitScraper ==
    /\ valid_tickers = {}
    /\ ignore_duplicates_arg = "omitted"
    /\ ignore_duplicates = ConstructedWith(ignore_duplicates_arg)
    /\ self_attempts \in 0..MaxAttempts
    /\ NoCall

parser == <<config, single, ignore_duplicates_arg, calls>>

\* historic_posts up to the first request, or the exception of
\* "if start > end"
historic_posts ==
    /\ spc = "idle"
    /\ sop' = "historic_posts"
    /\ \E startAfterEnd \in BOOLEAN :
          IF startAfterEnd
          THEN /\ sraised' = "PushshiftException: start"
               /\ spc' = "done"
               /\ UNCHANGED <<target, page>>
          ELSE /\ sraised' = "none"
               /\ spc' = "request"
               /\ target' = "submission"
               /\ page' = 1
    /\ attempt' = 0 /\ posts' = "unbound" /\ reqlog' = <<>>
    /\ UNCHANGED <<parser, self_attempts>>

\* historic_comments up to the first request of the historic_posts it
\* calls, or the exception of "if start > end"
historic_comments ==
    /\ spc = "idle"
    /\ sop' = "historic_comments"
    /\ \E startAfterEnd \in BOOLEAN :
          IF startAfterEnd
          THEN /\ sraised' = "PushshiftException: start"
               /\ spc' = "done"
               /\ UNCHANGED <<target, page>>
          ELSE /\ sraised' = "none"
               /\ spc' = "request"
               /\ target' = "submission"
               /\ page' = 1
    /\ attempt' = 0 /\ posts' = "unbound" /\ reqlog' = <<>>
    /\ UNCHANGED <<parser, self_attempts>>

IsFinalAttemptOffByOne(a) == a = self_attempts

\* attempt + 1 == self.attempts
IsFinalAttempt(a) == a + 1 = self_attempts

\* one turn of "for attempt in range(self.attempts)": the request succeeds
\* and breaks the loop, or fails, and the except clause raises or waits; a
\* range that is exhausted leaves the loop with posts as it was
Request ==
    /\ spc = "request"
    /\ IF attempt >= self_attempts
       THEN /\ spc' = "process"
            /\ UNCHANGED <<posts, reqlog, sraised>>
       ELSE \/ /\ posts' \in (IF page < MaxPages THEN {"empty", "nonempty"} ELSE {"empty"})
               /\ reqlog' = Append(reqlog, "ok")
               /\ spc' = "process"
               /\ UNCHANGED sraised
            \/ /\ reqlog' = Append(reqlog, "fail")
               /\ IF IsFinalAttempt(attempt)
                  THEN sraised' = "PushshiftException: final attempt" /\ spc' = "done"
                  ELSE sraised' = sraised /\ spc' = "sleep"
               /\ UNCHANGED posts
    /\ UNCHANGED <<parser, self_attempts, sop, target, attempt, page>>

\* time.sleep(2), then the next turn of the loop over the attempts
Sleep ==
    /\ spc = "sleep"
    /\ reqlog' = Append(reqlog, "sleep")
    /\ attempt' = attempt + 1
    /\ spc' = "request"
    /\ UNCHANGED <<parser, self_attempts, sop, target, posts, sraised, page>>

\* the next page request
NextPage ==
    /\ spc' = "request"
    /\ attempt' = 0
    /\ reqlog' = <<>>
    /\ page' = page + 1

\* the rest of the body of "while querying".  In historic_posts the first
\* post of a page raises (post_dict is read before it is assigned); an
\* unbound posts raises in "for post in posts".
Process ==
    /\ spc = "process"
    /\ IF posts = "unbound" \/ (target = "submission" /\ posts = "nonempty")
       THEN /\ sraised' = "UnboundLocalError"
            /\ spc' = "done"
            /\ UNCHANGED <<target, attempt, posts, page, reqlog>>
       ELSE IF posts = "nonempty"
       THEN /\ NextPage
            /\ UNCHANGED <<target, posts, sraised>>
       ELSE IF target = "submission" /\ sop = "historic_comments"
       THEN /\ NextPage
            /\ target' = "comment"
            /\ posts' = "unbound"
            /\ UNCHANGED sraised
       ELSE /\ spc' = "done"
            /\ UNCHANGED <<target, attempt, posts, page, reqlog, sraised>>
    /\ UNCHANGED <<parser, self_attempts, sop>>

\* the caller takes the frames or the exception
ScraperReturn ==
    /\ spc = "done"
    /\ spc' = "idle" /\ sop' = "none" /\ target' = "none" /\ attempt' = 0
    /\ posts' = "unbound" /\ sraised' = "none" /\ page' = 0 /\ reqlog' = <<>>
    /\ UNCHANGED <<parser, self_attempts>>

NextScraper ==
    \/ historic_posts
    \/ historic_comments
    \/ Request
    \/ Sleep
    \/ Process
    \/ ScraperReturn

SpecScraper == InitScraper /\ [][NextScraper]_vars

(***************************************************************************)
(* TextParser.words as a call                                              *)
(***************************************************************************)
\* the texts given to words: letters, the space, a newline, a tab, a
\* digit, a colon and an emoji
WordsTexts == Strings({"a", "B", " ", "\n", "\t", "7", ":", Rocket}, MaxLen)

CallWords ==
    /\ pc = "idle"
    /\ \E t \in WordsTexts : text' = t /\ result' = words(t)
    /\ op' = "words"
    /\ pc' = "done"
    /\ UNCHANGED <<config, others, locals, raised, history>>

NextWords == CallWords \/ Return

SpecWords == Init /\ [][NextWords]_vars

(***************************************************************************)
(* SentimentAnalyzer.ticker_sentiment.  The classifier is outside of the   *)
(* program: its scores are kept as the text they are computed from.        *)
(***************************************************************************)
\* the most words of a text given to ticker_sentiment
MaxWords == 22

\* the text of n one-letter words, T at the places P and w at the others,
\* with one space between two words
WordsWith(n, P) ==
    [k \in 1..(IF n = 0 THEN 0 ELSE 2 * n - 1) |->
        IF k % 2 = 0 THEN " " ELSE IF (k + 1) \div 2 \in P THEN "T" ELSE "w"]

\* texts of at most MaxWords words with T at no, one or two places
SentimentTexts ==
    {WordsWith(n, {p, q} \ {0}) : n \in 0..MaxWords, p \in 0..MaxWords, q \in 0..MaxWords}

\* len(words) > 20
WindowThreshold == 20

\* ticker_index - 10 and ticker_index + 10
WindowBefore == 10
WindowAfter == 10

\* list.index(w): the 0-based position of the first w of ws
Index(ws, w) == (CHOOSE k \in 1..Len(ws) : ws[k] = w /\ \A j \in 1..(k - 1) : ws[j] # w) - 1

\* the bound i of a slice of a list of n items: a negative bound counts
\* from the end, and a bound outside of the list is the nearest end
SliceBound(i, n) ==
    IF i < 0 THEN (IF i + n < 0 THEN 0 ELSE i + n) ELSE IF i > n THEN n ELSE i

\* ws[a:b], with 0-based bounds
Slice(ws, a, b) ==
    LET lo == SliceBound(a, Len(ws))
        hi == SliceBound(b, Len(ws))
    IN  IF lo >= hi THEN <<>> ELSE SubSeq(ws, lo + 1, hi)

RECURSIVE Join(_)
\* ' '.join(ws)
Join(ws) ==
    IF ws = <<>> THEN <<>>
    ELSE IF Len(ws) = 1 THEN ws[1]
    ELSE Join(SubSeq(ws, 1, Len(ws) - 1)) \o <<" ">> \o ws[Len(ws)]

\* self._sia.polarity_scores(text)
polarity_scores(t) == [scored |-> t]

\* the text that ticker_sentiment gives to the classifier
ScoredText(t, ws, tk) ==
    IF Len(ws) > WindowThreshold
    THEN Join(Slice(ws, Index(ws, tk) - WindowBefore, Index(ws, tk) + WindowAfter))
    ELSE t

ticker_sentiment ==
    /\ pc = "idle"
    \* the ticker asked for: one that the texts have, one that they have not
    /\ \E t \in SentimentTexts, tk \in {<<"T">>, <<"X">>} :
          /\ text' = t
          /\ LET ws == words(t)
             IN  result' = IF tk \notin Range(ws)
                           THEN [ticker |-> tk, sentiment |-> "neutral"]
                           ELSE [ticker |-> tk,
                                 sentiment |-> polarity_scores(ScoredText(t, ws, tk))]
    /\ op' = "ticker_sentiment"
    /\ pc' = "done"
    /\ UNCHANGED <<config, others, locals, raised, history>>

NextSentiment == ticker_sentiment \/ Return

SpecSentiment == Init /\ [][NextSentiment]_vars

(***************************************************************************)
(* Properties                                                              *)
(***************************************************************************)
\* the number of mentions emitted by the first k finalize attempts
EmittedUpTo(k) == Cardinality({j \in 1..k : attempts[j].outcome = "emitted"})

\* the position of the last element consumed before the span of attempt k
SpanStart(k) == IF k = 1 THEN 0 ELSE attempts[k - 1].at

\* the position of the most recent element of a kind among lo+1 .. hi
LastOf(kind, lo, hi) ==
    CHOOSE j \in (lo + 1)..hi :
        /\ contract_elements[j][1] = kind
        /\ \A i \in (j + 1)..hi : contract_elements[i][1] # kind

RECURSIVE IsSubsequence(_, _)
IsSubsequence(a, b) ==
    IF a = <<>> THEN TRUE
    ELSE IF b = <<>> THEN FALSE
    ELSE IF Head(a) = Head(b) THEN IsSubsequence(Tail(a), Tail(b))
    ELSE IsSubsequence(a, Tail(b))

\* C1: every mention in the frame of contracts and in what contracts returns
\* has a strike strictly greater than 5, and a finalize attempt whose strike
\* is a number not greater than 5 adds no mention to the frame.
C1_StrikeAboveThreshold ==
    /\ [](/\ \A k \in 1..Len(contracts_df) : FloatGreater(contracts_df[k].strike, 5)
          /\ (pc = "done" /\ op = "contracts") =>
                 \A k \in 1..Len(result) : FloatGreater(result[k].strike, 5))
    /\ [][(/\ pc = "finalize"
           /\ float(DropLast(strike)).kind = "num"
           /\ ~FloatGreater(float(DropLast(strike)), 5))
          => contracts_df' = contracts_df]_vars

\* a call of contracts that emitted one mention and dropped the triple with
\* the strike 5C
C1_Witness ==
    /\ pc = "done" /\ op = "contracts"
    /\ Len(result) = 1
    /\ \E k \in 1..Len(attempts) :
           /\ attempts[k].outcome = "below"
           /\ contract_elements[attempts[k].strike][2] = Chars("5C")

\* C2: all three slots are non-empty only when a finalize attempt is about
\* to run; the attempt leaves all three slots empty whatever its outcome;
\* and no element is the ticker, the strike or the date of two mentions.
C2_ResetAfterAttempt ==
    /\ []((ticker # None /\ strike # None /\ date # None) => pc = "finalize")
    /\ [][pc = "finalize" => (ticker' = None /\ strike' = None /\ date' = None)]_vars
    /\ [](\A a, b \in 1..Len(attempts) :
              (a # b /\ attempts[a].outcome = "emitted" /\ attempts[b].outcome = "emitted")
              => {attempts[a].ticker, attempts[a].strike, attempts[a].date}
                     \cap {attempts[b].ticker, attempts[b].strike, attempts[b].date} = {})

\* the three outcomes have happened in one call and the slots are empty
C2_Witness ==
    /\ pc = "loop"
    /\ {attempts[k].outcome : k \in 1..Len(attempts)} = {"emitted", "below", "unparseable"}
    /\ ticker = None /\ strike = None /\ date = None

\* C3: the ticker, the strike and the date of every emitted mention are those
\* of the most recent ticker, strike and date element since the previous
\* finalize attempt (or since the first element).
C3_LastSeenWins ==
    \A k \in 1..Len(attempts) :
        attempts[k].outcome = "emitted" =>
            LET row == contracts_df[EmittedUpTo(k)]
                lo == SpanStart(k)
                hi == attempts[k].at
            IN  /\ row.ticker = contract_elements[LastOf("ticker", lo, hi)][2]
                /\ row.date = contract_elements[LastOf("date", lo, hi)][2]
                /\ row.strike = float(DropLast(contract_elements[LastOf("strike", lo, hi)][2]))

\* a mention whose span holds an earlier ticker and an earlier date that
\* were overwritten
C3_Witness ==
    \E k \in 1..Len(attempts) :
        /\ attempts[k].outcome = "emitted"
        /\ Len(contracts_df) >= EmittedUpTo(k)
        /\ \E i, j \in (SpanStart(k) + 1)..attempts[k].at :
               /\ contract_elements[i][1] = "ticker"
               /\ i < attempts[k].ticker
               /\ contract_elements[i][2] # contracts_df[EmittedUpTo(k)].ticker
               /\ contract_elements[j][1] = "date"
               /\ j < attempts[k].date
               /\ contract_elements[j][2] # contracts_df[EmittedUpTo(k)].date

\* C4: contract_counts gives every distinct mention the number of times the
\* loop emitted it, whatever ignore_duplicates is.
C4_CountsAllEmissions ==
    (pc = "done" /\ op = "contract_counts") =>
        /\ \A k \in 1..Len(contracts_df) :
               \E r \in result :
                   /\ r.ticker = contracts_df[k].ticker
                   /\ r.strike = contracts_df[k].strike
                   /\ r.type = contracts_df[k].type
                   /\ r.date = contracts_df[k].date
                   /\ r.count = Cardinality({j \in 1..Len(contracts_df) :
                                                 contracts_df[j] = contracts_df[k]})
        /\ Cardinality(result) = Cardinality(Range(contracts_df))

\* C5: with ignore_duplicates contracts returns each distinct emitted mention
\* once, in the order of first emission; without it, every emitted mention
\* in the order of emission.
C5_Deduplication ==
    (pc = "done" /\ op = "contracts") =>
        IF ignore_duplicates
        THEN /\ Range(result) = Range(contracts_df)
             /\ \A a, b \in 1..Len(result) : result[a] = result[b] => a = b
             /\ \A a, b \in 1..Len(result) :
                    a < b =>
                        (CHOOSE i \in 1..Len(contracts_df) :
                             /\ contracts_df[i] = result[a]
                             /\ \A j \in 1..(i - 1) : contracts_df[j] # result[a])
                      < (CHOOSE i \in 1..Len(contracts_df) :
                             /\ contracts_df[i] = result[b]
                             /\ \A j \in 1..(i - 1) : contracts_df[j] # result[b])
        ELSE result = contracts_df

\* a mention emitted twice with another mention in between, returned once
C5_Witness ==
    /\ pc = "done" /\ op = "contracts" /\ ignore_duplicates
    /\ Len(contracts_df) = 3
    /\ contracts_df[1] = contracts_df[3]
    /\ contracts_df[1] # contracts_df[2]
    /\ Len(result) = 2

\* C6: every element that tickers returns is a member of valid_tickers.
C6_TickersInUniverse ==
    (pc = "done" /\ op = "tickers") =>
        \A k \in 1..Len(result) : result[k] \in valid_tickers

\* tickers returned a ticker for a text with a word outside the universe
C6_Witness ==
    /\ pc = "done" /\ op = "tickers"
    /\ Len(result) >= 1
    /\ \E k \in 1..Len(words(text)) : words(text)[k] \notin valid_tickers

\* C7: without ignore_duplicates tickers returns the words of the text that
\* are in the universe, in their order and with their repetitions; with it,
\* each universe ticker among the words once and nothing else.
C7_TickersResult ==
    (pc = "done" /\ op = "tickers") =>
        LET ws == words(text)
            I == {k \in 1..Len(ws) : ws[k] \in valid_tickers}
        IN  IF ignore_duplicates
            THEN /\ Range(result) = {ws[k] : k \in I}
                 /\ \A a, b \in 1..Len(result) : result[a] = result[b] => a = b
            ELSE /\ Len(result) = Cardinality(I)
                 /\ \A n \in 1..Len(result) :
                        result[n] = ws[CHOOSE k \in I : Cardinality({j \in I : j <= k}) = n]

\* a ticker returned twice, from a text that also has other words
C7_Witness ==
    /\ pc = "done" /\ op = "tickers" /\ ~ignore_duplicates
    /\ Len(result) < Len(words(text))
    /\ \E a, b \in 1..Len(result) : a < b /\ result[a] = result[b]

\* C8: ticker_counts has one row for each universe ticker among the words of
\* the text and no other row, and the count of a row is the number of
\* occurrences of its ticker among the words, whatever ignore_duplicates is.
C8_TickerCounts ==
    (pc = "done" /\ op = "ticker_counts") =>
        LET ws == words(text)
        IN  /\ {r.ticker : r \in result} = Range(ws) \cap valid_tickers
            /\ \A r, q \in result : r.ticker = q.ticker => r = q
            /\ \A r \in result : r.count = Cardinality({k \in 1..Len(ws) : ws[k] = r.ticker})

\* a parser with ignore_duplicates counted a ticker twice
C8_Witness ==
    /\ pc = "done" /\ op = "ticker_counts" /\ ignore_duplicates
    /\ Cardinality(result) = 2
    /\ \E r \in result : r.count >= 2

\* C9: each filter applied to its own result returns that result, and the
\* result holds only characters of the class of the filter and spaces, in
\* the order they have in the text.
C9_FiltersIdempotent ==
    /\ (pc = "done" /\ op = "alpha") =>
           /\ alpha(result) = result
           /\ Range(result) \subseteq Letters \cup {" "}
           /\ IsSubsequence(result, text)
    /\ (pc = "done" /\ op = "numeric") =>
           /\ numeric(result) = result
           /\ Range(result) \subseteq Digits \cup {" "}
           /\ IsSubsequence(result, text)
    /\ (pc = "done" /\ op = "alphanumeric") =>
           /\ alphanumeric(result) = result
           /\ Range(result) \subseteq Letters \cup Digits \cup {" "}
           /\ IsSubsequence(result, text)

\* alpha removed two characters of a text and kept two
C9_Witness ==
    /\ pc = "done" /\ op = "alpha"
    /\ Len(text) = 4 /\ Len(result) = 2
    /\ \E k \in 1..Len(text) : text[k] = "\n"

\* C10: contracts never raises; a finalize attempt whose strike is no number
\* emits nothing and the loop goes on to the last element; with an empty
\* universe, an empty text or no complete triple the result is empty.
C10_NeverRaises ==
    /\ raised = FALSE
    /\ Len(contracts_df) = EmittedUpTo(Len(attempts))
    /\ (pc \in {"group", "done"} /\ op \in {"contracts", "contract_counts"}) =>
           idx = Len(contract_elements)
    /\ (pc = "done" /\ op = "contracts"
            /\ (valid_tickers = {} \/ text = <<>> \/ attempts = <<>>)) =>
           result = <<>>

\* a mention emitted after an attempt whose strike was no number
C10_Witness ==
    /\ pc = "done" /\ op = "contracts"
    /\ Len(result) >= 1
    /\ \E a, b \in 1..Len(attempts) :
           /\ a < b
           /\ attempts[a].outcome = "unparseable"
           /\ attempts[b].outcome = "emitted"

\* C14: a parser constructed without the argument ignore_duplicates has
\* ignore_duplicates = False, and its tickers returns the universe words of
\* the text with their repetitions.
C14_DefaultKeepsDuplicates ==
    ignore_duplicates_arg = "omitted" =>
        /\ ignore_duplicates = FALSE
        /\ (pc = "done" /\ op = "tickers") => result = Matching(words(text), valid_tickers)

\* is position j of the uppercased text u inside a link: HTTP stands at some
\* i <= j, at least one more character follows it, and no whitespace stands
\* between i and j
InsideUrl(u, j) ==
    \E i \in 1..j :
        /\ HasAt(u, i, HTTP)
        /\ i + 4 <= Len(u)
        /\ \A k \in i..(IF j > i + 4 THEN j ELSE i + 4) : u[k] \notin Whitespace

\* the text with every character of a link replaced by a space
WithoutUrls(t) == [j \in 1..Len(t) |-> IF InsideUrl(Upper(t), j) THEN " " ELSE t[j]]

\* C11: the elements of a text are those of the text with every link, from
\* HTTP to the next whitespace, blanked: nothing is classified from the
\* characters of a link, and a text that has nothing outside of its links
\* has no element and yields no mention.
C11_UrlsStripped ==
    /\ (op = "contracts" /\ pc = "loop" /\ idx = 0) =>
           contract_elements = _contract_elements(WithoutUrls(text), valid_tickers)
    /\ (op = "contracts" /\ \A j \in 1..Len(text) :
                                text[j] \in Whitespace \/ InsideUrl(Upper(text), j)) =>
           /\ contract_elements = <<>>
           /\ contracts_df = <<>>
           /\ pc = "done" => result = <<>>

\* contracts returned nothing for a text that is one link with a ticker, a
\* strike and a date in it
C11_Witness ==
    /\ pc = "done" /\ op = "contracts"
    /\ text = Chars("http:AAPL-150C-1/15") \o <<"\n">>
    /\ result = <<>>

RECURSIVE AloneLoop(_, _, _, _, _, _)
\* the frame of mentions of contracts run alone on the elements es, from
\* element i on with the slots tk, st, dt and the frame df
AloneLoop(es, i, tk, st, dt, df) ==
    IF i > Len(es) THEN df
    ELSE LET tk2 == IF es[i][1] = "ticker" THEN es[i][2] ELSE tk
             st2 == IF es[i][1] = "strike" THEN es[i][2] ELSE st
             dt2 == IF es[i][1] = "date" THEN es[i][2] ELSE dt
             v == float(DropLast(st2))
         IN  IF tk2 = None \/ st2 = None \/ dt2 = None
             THEN AloneLoop(es, i + 1, tk2, st2, dt2, df)
             ELSE AloneLoop(es, i + 1, None, None, None,
                            IF v.kind # "err" /\ FloatGreater(v, 5)
                            THEN Append(df, [ticker |-> tk2, strike |-> v,
                                             type |-> ContractType(st2), date |-> dt2])
                            ELSE df)

\* what contracts(t) returns when no other call is in progress
AloneContracts(t) ==
    LET df == AloneLoop(_contract_elements(t, valid_tickers), 1, None, None, None, <<>>)
    IN  IF ignore_duplicates THEN drop_duplicates(df) ELSE df

\* is r a result of the operation o on the text t run alone
AloneResult(o, t, r) ==
    CASE o = "contracts"       -> r = AloneContracts(t)
      [] o = "contract_counts" -> r = GroupSize(AloneContracts(t))
      [] o = "tickers"         ->
             IF ignore_duplicates
             THEN /\ Range(r) = Range(words(t)) \cap valid_tickers
                  /\ Len(r) = Cardinality(Range(r))
             ELSE r = Matching(words(t), valid_tickers)
      [] o = "ticker_counts"   ->
             r = {[ticker |-> w, count |-> CountOf(words(t), w)] :
                      w \in Range(words(t)) \cap valid_tickers}

\* C12: no step of tickers, ticker_counts, contracts or contract_counts
\* changes valid_tickers or ignore_duplicates; a caller that is in no call
\* has nothing left of its calls; and whatever the steps of the other caller
\* in between, a call returns what it returns when it runs alone.
C12_CallsIndependent ==
    /\ [][valid_tickers' = valid_tickers /\ ignore_duplicates' = ignore_duplicates]_vars
    /\ [](\A c \in Callers :
              /\ calls[c].pc = "idle" => calls[c] = IdleFrame
              /\ calls[c].pc = "done" =>
                     AloneResult(calls[c].op, calls[c].text, calls[c].result))

\* both callers were inside contracts at the same time on different texts,
\* one has returned a mention and the other has emitted one
C12_Witness ==
    /\ calls[1].pc = "done" /\ calls[1].op = "contracts" /\ calls[1].interleaved
    /\ Len(calls[1].result) = 2
    /\ calls[2].pc = "loop" /\ calls[2].op = "contracts" /\ calls[2].interleaved
    /\ Len(calls[2].contracts_df) = 1
    /\ calls[2].text # calls[1].text

\* the positions of the attempts of the current request in reqlog
Tries == {k \in 1..Len(reqlog) : reqlog[k] \in {"ok", "fail"}}

Fails == {k \in 1..Len(reqlog) : reqlog[k] = "fail"}

\* C13: a page request is attempted at most self.attempts times; a success
\* is the last entry of the request; a failure that is not the last
\* attempt is followed by a wait and then by another attempt; and the
\* PushshiftException of a request is raised exactly when its attempts, all
\* self.attempts of them, have failed.
C13_RetriesBounded ==
    /\ [](/\ Cardinality(Tries) <= self_attempts
          /\ \A k \in 1..Len(reqlog) : reqlog[k] = "ok" => k = Len(reqlog)
          /\ \A k \in 1..(Len(reqlog) - 1) :
                 /\ reqlog[k] = "fail" => reqlog[k + 1] = "sleep"
                 /\ reqlog[k] = "sleep" => reqlog[k + 1] \in {"ok", "fail"}
          /\ sraised = "PushshiftException: final attempt"
                 <=> (Fails # {} /\ Cardinality(Fails) = self_attempts))
    /\ [][(spc = "request" /\ attempt < self_attempts /\ Cardinality(Tries') > Cardinality(Tries))
             => \/ reqlog'[Len(reqlog')] = "ok" /\ spc' = "process"
                \/ Cardinality(Fails') < self_attempts /\ spc' = "sleep"
                \/ Cardinality(Fails') = self_attempts /\ spc' = "done"]_vars
    /\ [][spc = "sleep" => (spc' = "request" /\ attempt' = attempt + 1)]_vars

\* historic_comments raised after the third attempt of a later page failed
C13_Witness ==
    /\ sop = "historic_comments" /\ target = "comment" /\ page = 3
    /\ self_attempts = 3
    /\ reqlog = <<"fail", "sleep", "fail", "sleep", "fail">>
    /\ sraised = "PushshiftException: final attempt"

\* the strike token of finalize attempt k
StrikeToken(k) == contract_elements[attempts[k].strike][2]

\* C15: an emitted mention has the type call exactly when its strike token
\* ends in C and the type put exactly when it ends in P, and its strike is
\* the number that the token without its last character writes.
C15_TypeFromSuffix ==
    \A k \in 1..Len(attempts) :
        attempts[k].outcome = "emitted" =>
            LET row == contracts_df[EmittedUpTo(k)]
                token == StrikeToken(k)
            IN  /\ row.type = "call" <=> token[Len(token)] = "C"
                /\ row.type = "put" <=> token[Len(token)] = "P"
                /\ row.strike.kind = "num"
                /\ row.strike = float(DropLast(token))

\* a put whose strike is written with a decimal point or an exponent
C15_Witness ==
    /\ pc = "done" /\ op = "contracts"
    /\ Len(result) = 1 /\ Len(attempts) = 1
    /\ result[1].type = "put"
    /\ \E i \in 1..Len(StrikeToken(1)) : StrikeToken(1)[i] \in {".", "E"}

\* the words of the rewritten text of the call in progress
RewrittenWords == Split(Rewrite(text))

\* a purely numeric word: digits, perhaps with a decimal point
Bare(w) ==
    /\ \A i \in 1..Len(w) : w[i] \in Digits \cup {"."}
    /\ \E i \in 1..Len(w) : IsDigit(w[i])

\* a strike element whose token is not among the words ws of the rewritten
\* text: its type was inferred
Inferred(e, ws) == e[1] = "strike" /\ e[2] \notin ws

\* C16: when CALL occurs in the rewritten text every purely numeric word is
\* a strike element with the suffix C, otherwise when PUT occurs every such
\* word is a strike element with the suffix P, wherever the word CALL or PUT
\* stands; the inferred strikes of one text all have the same suffix.
C16_InferenceIsGlobal ==
    (op = "contracts" /\ pc = "loop" /\ idx = 0) =>
        LET t == Rewrite(text)
            ws == Range(Split(t))
            es == Range(contract_elements)
        IN  /\ \A w \in ws :
                   Bare(w) =>
                       /\ Contains(t, CALL) => <<"strike", Append(w, "C")>> \in es
                       /\ (Contains(t, PUT) /\ ~Contains(t, CALL)) =>
                              <<"strike", Append(w, "P")>> \in es
            /\ \A e, f \in es :
                   (Inferred(e, ws) /\ Inferred(f, ws)) =>
                       e[2][Len(e[2])] = f[2][Len(f[2])]

\* two numbers without a type, one before and one after the words PUTS and
\* CALL, both inferred as calls
C16_Witness ==
    /\ op = "contracts" /\ pc = "loop" /\ idx = 0
    /\ text = Chars("150 PUTS CALL 7.5")
    /\ contract_elements = << <<"strike", Chars("150C")>>, <<"strike", Chars("7.5C")>> >>

\* C20: when neither CALL nor PUT occurs in the rewritten text no strike is
\* inferred: every strike element and every value of the strike slot is a
\* word of the text, and a text without such a word yields no mention; when
\* both occur every purely numeric word is inferred as a call and none as a
\* put.
C20_NoTypeNoStrike ==
    LET t == Rewrite(text)
        ws == Range(Split(t))
        es == Range(contract_elements)
        NoType == ~Contains(t, CALL) /\ ~Contains(t, PUT)
    IN  /\ (op = "contracts" /\ pc = "loop" /\ idx = 0) =>
               /\ NoType =>
                      \A e \in es : e[1] = "strike" => (e[2] \in ws /\ ~Bare(e[2]))
               /\ (Contains(t, CALL) /\ Contains(t, PUT)) =>
                      /\ \A w \in ws : Bare(w) => <<"strike", Append(w, "C")>> \in es
                      /\ \A e \in es : Inferred(e, ws) => e[2][Len(e[2])] = "C"
        /\ (op = "contracts" /\ strike # None) => (NoType => strike \in ws)
        /\ (op = "contracts" /\ (contracts_df # <<>> \/ attempts # <<>> \/ result # <<>>)) =>
               (NoType => \E w \in ws : HasStrikeShape(w))

\* a ticker, a number without a type and a date gave no mention
C20_Witness ==
    /\ pc = "done" /\ op = "contracts"
    /\ text = Chars("AAPL 150 1/15")
    /\ contract_elements = << <<"ticker", Chars("AAPL")>>, <<"date", Chars("1/15")>> >>
    /\ result = <<>>

\* has the period at position i of t a digit right before and right after it
BetweenDigits(t, i) == i > 1 /\ i < Len(t) /\ IsDigit(t[i - 1]) /\ IsDigit(t[i + 1])

\* C17: every period of the rewritten text stands between two digits, and
\* so does every period of a classified token.
C17_PeriodsBetweenDigits ==
    op = "contracts" =>
        /\ LET t == Rewrite(text)
           IN  \A i \in 1..Len(t) : t[i] = "." => BetweenDigits(t, i)
        /\ \A k \in 1..Len(contract_elements) :
               LET token == contract_elements[k][2]
               IN  \A i \in 1..Len(token) : token[i] = "." => BetweenDigits(token, i)

\* does the word w stand at position i of t right after a number, or after
\* a number and one space
FollowsNumber(t, i, w) ==
    /\ HasAt(t, i, w)
    /\ \/ CharIn(t, i - 1, Digits)
       \/ CharIn(t, i - 1, {" "}) /\ CharIn(t, i - 2, Digits)

\* C18: the rewriting of the contract types leaves a text unchanged in which
\* none of CALL, CS, PUT, PS follows a number, and a word of the text that is
\* a ticker of the universe and does not follow a number is a ticker element.
C18_TypesOnlyAfterNumbers ==
    (op = "contracts" /\ pc = "loop" /\ idx = 0) =>
        LET b == BeforeVerbose(text)
            ws == Split(b)
        IN  /\ (\A i \in 1..Len(b) : \A w \in {CALL, CS, PUT, PS} : ~FollowsNumber(b, i, w))
                   => Sub("put", Sub("call", b)) = b
            /\ \A k \in 1..Len(ws) :
                   (ws[k] \in valid_tickers /\ (k = 1 \/ ~HasDigit(ws[k - 1])))
                       => <<"ticker", ws[k]>> \in Range(contract_elements)

\* a number followed by the one letter C or P
NumberWithType(w) == Len(w) >= 2 /\ Bare(DropLast(w)) /\ w[Len(w)] \in {"C", "P"}

\* a word that is no ticker of the universe, no number with a type, no
\* number and has no date in it
OtherWord(w) ==
    /\ w \notin valid_tickers
    /\ ~NumberWithType(w)
    /\ ~Bare(w)
    /\ ~HasDateShape(w)

\* C19: a word of the rewritten text that is no ticker, no number with a
\* type, no number and no date gives no element, with or without an inferred
\* suffix, and so never stands in the strike slot or in a finalize attempt.
C19_OtherWordsDiscarded ==
    op = "contracts" =>
        \A w \in Range(RewrittenWords) :
            OtherWord(w) =>
                /\ \A k \in 1..Len(contract_elements) :
                       contract_elements[k][2] \notin {w, Append(w, "C"), Append(w, "P")}
                /\ strike \notin {w, Append(w, "C"), Append(w, "P")}

RECURSIVE LetterRunsFrom(_, _, _, _)
\* the runs of letters of t from position i on, in capitals: a space ends
\* the run cur, any other character that is no letter is passed over
LetterRunsFrom(t, i, cur, out) ==
    IF i > Len(t) THEN (IF cur = <<>> THEN out ELSE Append(out, cur))
    ELSE IF t[i] \in Letters THEN LetterRunsFrom(t, i + 1, Append(cur, ToUpper(t[i])), out)
    ELSE IF t[i] = " "
         THEN LetterRunsFrom(t, i + 1, <<>>, IF cur = <<>> THEN out ELSE Append(out, cur))
    ELSE LetterRunsFrom(t, i + 1, cur, out)

LetterRuns(t) == LetterRunsFrom(t, 1, <<>>, <<>>)

\* an emoji, or a name between two colons, somewhere in t
HasEmojiOrName(t) == \E j \in 1..Len(t) : EmojiAt(t, j) \/ EmojiNameAt(t, j)

\* C21 as stated: the tokens of words are the runs of letters of the text,
\* in capitals, that the spaces of the text separate; every other character
\* is deleted and nothing is put in its place.
C21_DeletesWithoutSeparator ==
    (op = "words" /\ pc = "done") =>
        /\ \A k \in 1..Len(result) : \A i \in 1..Len(result[k]) : result[k][i] \in UpperLetters
        /\ result = LetterRuns(text)

\* C21: the tokens of words are made of capital letters only and are the
\* runs of letters, separated by spaces, of the text in which each emoji is
\* replaced by its name and each name between colons is set between two
\* spaces; a text without an emoji and without a name between colons gives
\* the runs of letters of the text itself, so that runs separated only by
\* deleted characters come out as one token.
C21_TokensOfWords ==
    (op = "words" /\ pc = "done") =>
        /\ \A k \in 1..Len(result) :
               result[k] # <<>> /\ \A i \in 1..Len(result[k]) : result[k][i] \in UpperLetters
        /\ result = LetterRuns(replace_emojis(text))
        /\ ~HasEmojiOrName(text) => result = LetterRuns(text)

\* two letters with only a newline between them came out as one token
C21_Witness ==
    /\ op = "words" /\ pc = "done"
    /\ text = <<"a", "\n", "B">>
    /\ result = <<Chars("AB")>>

\* the words of ws from 10 before to 10 after the 0-based position i, as far
\* as ws has them
ClippedWindow(ws, i) ==
    SubSeq(ws, IF i + 1 > WindowBefore THEN i + 1 - WindowBefore ELSE 1,
               IF i + 1 + WindowAfter < Len(ws) THEN i + 1 + WindowAfter ELSE Len(ws))

\* C22: when the ticker is a word of the text and the text has more than 20
\* words, the text that is scored is made of the words from 10 before to 10
\* after the first occurrence of the ticker, as far as the text has them,
\* and the ticker is one of them.
C22_WindowHoldsTicker ==
    (op = "ticker_sentiment" /\ pc = "done") =>
        LET ws == words(text)
            tk == result.ticker
        IN  (tk \in Range(ws) /\ Len(ws) > WindowThreshold) =>
                /\ result.sentiment = polarity_scores(Join(ClippedWindow(ws, Index(ws, tk))))
                /\ tk \in Range(Split(result.sentiment.scored))

====
